---- MODULE Spec2Model ----
(***************************************************************************)
(* The session client of the booking application (AuthProvider in          *)
(* contexts/AuthContext.tsx, the pages that call the api client) together  *)
(* with the backend's authentication endpoints and JWT gate.               *)
(*                                                                         *)
(* A step of the model is one JavaScript task: an event handler up to its  *)
(* first await, or the continuation of an await when its response arrives. *)
(* Requests in flight are kept in dispatch order and are answered in any   *)
(* order; the server handles a request in the step its response arrives.   *)
(***************************************************************************)
EXTENDS Integers, Sequences, FiniteSets, TLC

\* ---------------------------------------------------------------- bounds
MaxInflight == 2      \* requests in flight at the same time
MaxTime == 1          \* last value of the clock (days)

\* ------------------------------------------------------------- constants
TTL == 7              \* JWT_ACCESS_TOKEN_EXPIRES, in days

\* What the forms are filled with: the registered account with its password
\* and with a wrong one, and an account that is not registered at the start.
Credentials == {<<"a@x.com", "secret1">>, <<"a@x.com", "secret2">>, <<"b@x.com", "secret2">>}
Registrations == {<<"a@x.com", "secret1">>, <<"b@x.com", "secret2">>}

\* A token string, by what the verifier can tell about it: the subject and
\* the expiry of its payload and whether its signature matches.
NoToken == [sub |-> 0, exp |-> 0, sig |-> "none"]
NoUser == 0

AuthErrors == {"missing_token", "invalid_token", "token_expired", "unknown_subject"}
\* The requests to protected endpoints: "me" is GET /auth/me; "page" is any of
\* the pages' requests (/events, /bookings and its POST and DELETE,
\* /dashboard/stats), which the session does not tell apart.
ProtectedKinds == {"me", "page"}
PageKinds == ProtectedKinds \ {"me"}

VARIABLES
    now,        \* server clock
    users,      \* users table: id -> [email, password_hash]
    lsToken,    \* localStorage item "token"
    user,       \* AuthProvider state user (an id, NoUser for null)
    loading,    \* AuthProvider state loading
    started,    \* the mount effect of AuthProvider has run
    inflight,   \* requests dispatched and not yet settled, in dispatch order
    last,       \* history: the handler that ran last and the error it ended with
    sinceLogout,\* history: logout ran and no login/register response was accepted since
    intervened, \* history: a session operation ran since the application started
    verified,   \* history: the token the last verification outcome applied to the
                \* session succeeded for, NoToken when it failed or none was applied
    bookingsTable,  \* Bookings Table: rows [user_id, event_id, status], id = position
    bookingLoading, \* Events state bookingLoading (an event id, NoEvent for null)
    dashboard,      \* Dashboard state: stats, recentBookings, loading, and how far
                    \* the Promise.all of fetchDashboardData has come
    bookingsPage    \* Bookings state: bookings, filter, loading

vars == <<now, users, lsToken, user, loading, started, inflight,
          last, sinceLogout, intervened, verified,
          bookingsTable, bookingLoading, dashboard, bookingsPage>>

server == <<now, users, bookingsTable>>
pages == <<bookingLoading, dashboard, bookingsPage>>

\* ---------------------------------------------------- the pages at mount
\* useState(null) of bookingLoading and of stats; stats is what
\* GET /dashboard/stats counts for the user.
NoEvent == 0
NoStats == [total_bookings |-> 0 - 1]

\* all: the Promise.all of fetchDashboardData is not created yet ("idle"),
\* "pending", "fulfilled" or "rejected"; arrived: the requests of it that are
\* fulfilled, with their data in statsResponse and bookingsResponse.
DashboardAtMount ==
    [stats |-> NoStats, recentBookings |-> <<>>, loading |-> TRUE,
     all |-> "idle", arrived |-> {}, statsResponse |-> NoStats, bookingsResponse |-> <<>>]

BookingsAtMount == [bookings |-> <<>>, filter |-> "all", loading |-> TRUE]

PagesAtMount ==
    /\ bookingLoading = NoEvent
    /\ dashboard = DashboardAtMount
    /\ bookingsPage = BookingsAtMount
history == <<last, sinceLogout, intervened, verified>>

\* ------------------------------------------------------------- the server
Hash(pw) == <<"pbkdf2", pw>>

issueExpiringAtOnce(id, clock) == [sub |-> id, exp |-> clock, sig |-> "ok"]

issue(id, clock) == [sub |-> id, exp |-> clock + TTL, sig |-> "ok"]

verifyExpiryFirst(t, clock) ==
    IF t.sig = "none" THEN "missing_token"
    ELSE IF clock > t.exp THEN "token_expired"
    ELSE IF t.sig # "ok" THEN "invalid_token"
    ELSE "ok"

verifyNeverExpires(t, clock) ==
    IF t.sig = "none" THEN "missing_token"
    ELSE IF t.sig # "ok" THEN "invalid_token"
    ELSE "ok"

verifyStoredOnly(t, clock) ==
    IF t.sig = "none" THEN "missing_token"
    ELSE IF t.sig # "ok" \/ t # lsToken THEN "invalid_token"
    ELSE IF clock > t.exp THEN "token_expired"
    ELSE "ok"

\* Flask-JWT-Extended's checks behind jwt_required, in its order; the three
\* loaders turn the failures into the error kinds of the 401 response.
verify(t, clock) ==
    IF t.sig = "none" THEN "missing_token"
    ELSE IF t.sig # "ok" THEN "invalid_token"
    ELSE IF clock > t.exp THEN "token_expired"
    ELSE "ok"

UserIdByEmail(e) ==
    IF \E i \in 1..Len(users) : users[i].email = e
    THEN CHOOSE i \in 1..Len(users) : users[i].email = e
    ELSE NoUser

\* ----------------------------------------------------- requests in flight
\* lo and sup are history: a logout ran since the dispatch; the success
\* response of a later call of the same operation (login after login, register
\* after register) has been accepted since the dispatch.
NewRequest(kind, hdr, e, p) ==
    [kind |-> kind, hdr |-> hdr, email |-> e, pw |-> p, lo |-> FALSE, sup |-> FALSE]

RemoveAt(s, i) == [j \in 1..(Len(s) - 1) |-> IF j < i THEN s[j] ELSE s[j + 1]]

InFlight(i, kinds) ==
    /\ i \in 1..Len(inflight)
    /\ inflight[i].kind \in kinds

\* A response: st is "ok" or "fail", err the error kind of a failure, token
\* and user the body of a success.
Response(st, err, tok, usr) == [st |-> st, err |-> err, token |-> tok, user |-> usr]

\* The request or its response is lost: axios rejects without a response.
NetworkError == Response("fail", "network", NoToken, NoUser)

\* POST /auth/login
handleLogin(r) ==
    LET id == UserIdByEmail(r.email) IN
    IF id # NoUser /\ users[id].password_hash = Hash(r.pw)
    THEN Response("ok", "none", issue(id, now), id)
    ELSE Response("fail", "bad_credentials", NoToken, NoUser)

RegisteredByUnchecked(r) ==
    Append(users, [email |-> r.email, password_hash |-> Hash(r.pw)])

\* POST /auth/register; the row it inserts is RegisteredBy(r).
handleRegister(r) ==
    IF UserIdByEmail(r.email) # NoUser
    THEN Response("fail", "duplicate_email", NoToken, NoUser)
    ELSE Response("ok", "none", issue(Len(users) + 1, now), Len(users) + 1)

RegisteredBy(r) ==
    IF UserIdByEmail(r.email) # NoUser
    THEN users
    ELSE Append(users, [email |-> r.email, password_hash |-> Hash(r.pw)])

\* The gate in front of every protected endpoint.
gate(r) ==
    LET v == verify(r.hdr, now) IN
    IF v # "ok" THEN Response("fail", v, NoToken, NoUser)
    ELSE Response("ok", "none", NoToken, NoUser)

handleMeFirstRow(r) ==
    IF gate(r).st # "ok" THEN gate(r)
    ELSE IF r.hdr.sub \notin 1..Len(users)
    THEN Response("fail", "unknown_subject", NoToken, NoUser)
    ELSE Response("ok", "none", NoToken, 1)

\* GET /auth/me
handleMe(r) ==
    IF gate(r).st # "ok" THEN gate(r)
    ELSE IF r.hdr.sub \notin 1..Len(users)
    THEN Response("fail", "unknown_subject", NoToken, NoUser)
    ELSE Response("ok", "none", NoToken, r.hdr.sub)

\* GET|POST /api/jwt-test: behind jwt_required; the handler looks the subject
\* up and answers 200 with 'user': None when there is no such row.
jwt_test(r) ==
    IF gate(r).st # "ok" THEN gate(r)
    ELSE Response("ok", "none", NoToken,
                  IF r.hdr.sub \in 1..Len(users) THEN r.hdr.sub ELSE NoUser)

\* The endpoints behind jwt_required. The handlers of the listings answer
\* with data the session does not depend on.
ProtectedEndpoints ==
    {"/api/auth/me", "/api/events", "/api/bookings", "/api/dashboard/stats", "/api/jwt-test"}

handleWithOpenStats(path, r) ==
    IF path = "/api/auth/me" THEN handleMe(r)
    ELSE IF path = "/api/jwt-test" THEN jwt_test(r)
    ELSE IF path = "/api/dashboard/stats" THEN Response("ok", "none", NoToken, NoUser)
    ELSE gate(r)

handle(path, r) ==
    IF path = "/api/auth/me" THEN handleMe(r)
    ELSE IF path = "/api/jwt-test" THEN jwt_test(r)
    ELSE gate(r)

\* ---------------------------------------------------------- the api client
\* services/api: the request interceptor reads the stored token when the
\* request is dispatched and sends it as Authorization: Bearer <token>.
MissingAuthorizationHeader(stored) == NoToken

AuthorizationHeader(stored) == stored

\* services/api: an authorization failure of any request drops the session.
InertResponseInterceptor(a, tok, usr) == [token |-> tok, user |-> usr]

ResponseInterceptor(a, tok, usr) ==
    IF a.st = "fail" /\ a.err \in AuthErrors
    THEN [token |-> NoToken, user |-> NoUser]
    ELSE [token |-> tok, user |-> usr]

apiRequest(kind, e, p) ==
    /\ Len(inflight) < MaxInflight
    /\ inflight' = Append(inflight,
            NewRequest(kind, IF kind \in ProtectedKinds THEN AuthorizationHeader(lsToken) ELSE NoToken, e, p))

\* ------------------------------------------------------------ AuthProvider
\* had: user was present when the handler started.
Ran(op, err) == [op |-> op, err |-> err, had |-> user # NoUser]

\* The continuation of fetchUser: the session after the answer a of
\* GET /auth/me, given the session before it.
fetchUserSettledWithoutSetUser(a, tok, usr) ==
    LET s == ResponseInterceptor(a, tok, usr) IN
    IF a.st = "ok" THEN s ELSE [token |-> NoToken, user |-> s.user]

fetchUserSettled(a, tok, usr) ==
    LET s == ResponseInterceptor(a, tok, usr) IN
    IF a.st = "ok"
    THEN [token |-> s.token, user |-> a.user]
    ELSE [token |-> NoToken, user |-> s.user]

\* The continuation of login and of register: api.post throws on a failure
\* and nothing after it runs; on success the token and the user are stored.
loginSettledTokenOnly(a, tok, usr) ==
    LET s == ResponseInterceptor(a, tok, usr) IN
    IF a.st = "ok" THEN [token |-> a.token, user |-> usr] ELSE s

loginSettledDropsOnFailure(a, tok, usr) ==
    IF a.st = "ok"
    THEN [token |-> a.token, user |-> a.user]
    ELSE [token |-> NoToken, user |-> usr]

loginSettled(a, tok, usr) ==
    LET s == ResponseInterceptor(a, tok, usr) IN
    IF a.st = "ok"
    THEN [token |-> a.token, user |-> a.user]
    ELSE s

registerSettled(a, tok, usr) ==
    LET s == ResponseInterceptor(a, tok, usr) IN
    IF a.st = "ok"
    THEN [token |-> a.token, user |-> a.user]
    ELSE s

\* What the caller of login/register gets: nothing when the promise is
\* fulfilled, the error (with the server's message) when it is rejected.
Propagated(a) == IF a.st = "ok" THEN "none" ELSE a.err

pageSettledRefreshing(a, tok, usr) ==
    IF a.st = "fail" /\ a.err \in AuthErrors /\ usr # NoUser
    THEN [token |-> issue(usr, now), user |-> usr]
    ELSE [token |-> tok, user |-> usr]

\* The catch blocks of the pages keep the error to themselves.
pageSettled(a, tok, usr) == ResponseInterceptor(a, tok, usr)

logoutResultKeepsUser == [token |-> NoToken, user |-> user]

logoutResult == [token |-> NoToken, user |-> NoUser]

SessionKinds == {"me", "login", "register"}

MarkLogout(s) ==
    [j \in 1..Len(s) |-> IF s[j].kind \in SessionKinds THEN [s[j] EXCEPT !.lo = TRUE] ELSE s[j]]

MarkSuperseded(s, i) ==
    [j \in 1..Len(s) |->
        IF j < i /\ s[j].kind = s[i].kind THEN [s[j] EXCEPT !.sup = TRUE] ELSE s[j]]

BootstrapKeepsLoading ==
    /\ ~started
    /\ started' = TRUE
    /\ IF lsToken # NoToken
       THEN apiRequest("me", "", "")
       ELSE UNCHANGED inflight
    /\ last' = Ran("bootstrap", "none")
    /\ UNCHANGED <<server, lsToken, user, loading, sinceLogout, intervened, verified>>
    /\ UNCHANGED pages

\* useEffect(..., []): runs once, after the first render.
Bootstrap ==
    /\ ~started
    /\ started' = TRUE
    /\ IF lsToken # NoToken
       THEN /\ apiRequest("me", "", "")
            /\ UNCHANGED loading
       ELSE /\ loading' = FALSE
            /\ UNCHANGED inflight
    /\ last' = Ran("bootstrap", "none")
    /\ UNCHANGED <<server, lsToken, user, sinceLogout, intervened, verified>>
    /\ UNCHANGED pages

FetchUserSettle(i) ==
    /\ InFlight(i, {"me"})
    /\ \E a \in {handleMe(inflight[i]), NetworkError} :
        LET s == fetchUserSettled(a, lsToken, user) IN
        /\ lsToken' = s.token
        /\ user' = s.user
        /\ last' = Ran("fetchUser", a.err)
        /\ verified' = IF a.st = "ok" THEN inflight[i].hdr ELSE NoToken
    /\ loading' = FALSE
    /\ inflight' = RemoveAt(inflight, i)
    /\ UNCHANGED <<server, started, sinceLogout, intervened>>
    /\ UNCHANGED pages

Login(e, p) ==
    /\ started
    /\ apiRequest("login", e, p)
    /\ last' = Ran("login", "none")
    /\ intervened' = TRUE
    /\ UNCHANGED <<server, lsToken, user, loading, started, sinceLogout, verified>>
    /\ UNCHANGED pages

LoginSettle(i) ==
    /\ InFlight(i, {"login"})
    /\ \E a \in {handleLogin(inflight[i]), NetworkError} :
        LET s == loginSettled(a, lsToken, user) IN
        /\ lsToken' = s.token
        /\ user' = s.user
        /\ inflight' = RemoveAt(IF a.st = "ok" THEN MarkSuperseded(inflight, i) ELSE inflight, i)
        /\ sinceLogout' = (sinceLogout /\ a.st # "ok")
        /\ last' = Ran("loginSettled", Propagated(a))
        /\ verified' = IF a.st = "ok" THEN a.token ELSE verified
    /\ UNCHANGED <<server, loading, started, intervened>>
    /\ UNCHANGED pages

Register(e, p) ==
    /\ started
    /\ apiRequest("register", e, p)
    /\ last' = Ran("register", "none")
    /\ intervened' = TRUE
    /\ UNCHANGED <<server, lsToken, user, loading, started, sinceLogout, verified>>
    /\ UNCHANGED pages

RegisterSettle(i) ==
    /\ InFlight(i, {"register"})
    /\ \E a \in {handleRegister(inflight[i]), NetworkError} :
        LET s == registerSettled(a, lsToken, user) IN
        /\ users' = IF a = NetworkError THEN users ELSE RegisteredBy(inflight[i])
        /\ lsToken' = s.token
        /\ user' = s.user
        /\ inflight' = RemoveAt(IF a.st = "ok" THEN MarkSuperseded(inflight, i) ELSE inflight, i)
        /\ sinceLogout' = (sinceLogout /\ a.st # "ok")
        /\ last' = Ran("registerSettled", Propagated(a))
        /\ verified' = IF a.st = "ok" THEN a.token ELSE verified
    /\ UNCHANGED <<now, bookingsTable, loading, started, intervened>>
    /\ UNCHANGED pages

Logout ==
    /\ started
    /\ lsToken' = logoutResult.token
    /\ user' = logoutResult.user
    /\ inflight' = MarkLogout(inflight)
    /\ last' = Ran("logout", "none")
    /\ sinceLogout' = TRUE
    /\ intervened' = TRUE
    /\ verified' = NoToken
    /\ UNCHANGED <<server, loading, started>>
    /\ UNCHANGED pages

\* ------------------------------------------------------------------ pages
\* fetchDashboardData, fetchEvents, handleBooking, fetchBookings and
\* handleCancelBooking each call the api client and catch its error.
PageRequest ==
    /\ started
    /\ apiRequest("page", "", "")
    /\ last' = Ran("page", "none")
    /\ UNCHANGED <<server, lsToken, user, loading, started, sinceLogout, intervened, verified>>
    /\ UNCHANGED pages

PageSettle(i) ==
    /\ InFlight(i, PageKinds)
    /\ \E a \in {gate(inflight[i]), NetworkError} :
        LET s == pageSettled(a, lsToken, user) IN
        /\ lsToken' = s.token
        /\ user' = s.user
        /\ intervened' = (intervened \/ a.err \in AuthErrors)
        /\ last' = Ran("pageSettled", a.err)
        /\ verified' = IF a.err \in AuthErrors THEN NoToken ELSE verified
    /\ inflight' = RemoveAt(inflight, i)
    /\ UNCHANGED <<server, loading, started, sinceLogout>>
    /\ UNCHANGED pages

Tick ==
    /\ now < MaxTime
    /\ now' = now + 1
    /\ UNCHANGED <<users, bookingsTable, lsToken, user, loading, started, inflight, history>>
    /\ UNCHANGED pages

\* ---------------------------------------------------------- specification
\* The tab opens with whatever an earlier visit left in localStorage: nothing,
\* the token of the registered user on the last day of its validity, or that
\* token with a damaged signature.
StoredAtStart ==
    {NoToken, issue(1, 0 - TTL), [issue(1, 0 - TTL) EXCEPT !.sig = "bad"]}

Init ==
    /\ now = 0
    /\ users = <<[email |-> "a@x.com", password_hash |-> Hash("secret1")]>>
    /\ lsToken \in StoredAtStart
    /\ user = NoUser
    /\ loading = TRUE
    /\ started = FALSE
    /\ inflight = <<>>
    /\ last = [op |-> "none", err |-> "none", had |-> FALSE]
    /\ sinceLogout = FALSE
    /\ intervened = FALSE
    /\ verified = NoToken
    /\ bookingsTable = <<>>
    /\ PagesAtMount

Next ==
    \/ Bootstrap
    \/ Logout
    \/ Tick
    \/ \E c \in Credentials : Login(c[1], c[2])
    \/ \E c \in Registrations : Register(c[1], c[2])
    \/ PageRequest
    \/ \E i \in 1..MaxInflight :
        \/ FetchUserSettle(i)
        \/ LoginSettle(i)
        \/ RegisterSettle(i)
        \/ PageSettle(i)

Spec == Init /\ [][Next]_vars

\* React runs the mount effect after the first render, and the one
\* GET /auth/me of the bootstrap is answered or fails in the end.
FairSpec ==
    /\ Spec
    /\ WF_vars(Bootstrap)
    /\ WF_vars(\E i \in 1..MaxInflight : FetchUserSettle(i))

\* -------------------------------------------------------- the Events page
\* The Events page of a signed-in user, with the server behind it. The
\* events shown are open ones (not full, not passed), so a Book button is
\* disabled exactly when bookingLoading is its event.
EventIds == {1, 2}

BookingRequest(hdr, ev) ==
    [kind |-> "book", hdr |-> hdr, email |-> "", pw |-> "",
     lo |-> FALSE, sup |-> FALSE, event_id |-> ev]

Booked(uid, ev) ==
    \E k \in 1..Len(bookingsTable) :
        bookingsTable[k].user_id = uid /\ bookingsTable[k].event_id = ev

\* POST /bookings: behind the gate, one insert into the Bookings Table, which
\* the unique constraint on (user_id, event_id) refuses.
handleBook(r) ==
    IF gate(r).st # "ok" THEN gate(r)
    ELSE IF Booked(r.hdr.sub, r.event_id)
    THEN Response("fail", "already_booked", NoToken, NoUser)
    ELSE Response("ok", "none", NoToken, r.hdr.sub)

BookedByUnchecked(r) ==
    IF gate(r).st # "ok" THEN bookingsTable
    ELSE Append(bookingsTable,
                [user_id |-> r.hdr.sub, event_id |-> r.event_id, status |-> "confirmed"])

BookedBy(r) ==
    IF gate(r).st # "ok" \/ Booked(r.hdr.sub, r.event_id) THEN bookingsTable
    ELSE Append(bookingsTable,
                [user_id |-> r.hdr.sub, event_id |-> r.event_id, status |-> "confirmed"])

\* A click on the Book button of event ev: handleBooking up to its await.
handleBooking(ev) ==
    /\ bookingLoading # ev
    /\ Len(inflight) < MaxInflight
    /\ bookingLoading' = ev
    /\ inflight' = Append(inflight, BookingRequest(AuthorizationHeader(lsToken), ev))
    /\ last' = Ran("handleBooking", "none")
    /\ UNCHANGED <<server, lsToken, user, loading, started, sinceLogout, intervened, verified>>
    /\ UNCHANGED <<dashboard, bookingsPage>>

\* The rest of handleBooking: after a success fetchEvents() is called, which
\* dispatches GET /events; the finally block clears bookingLoading.
handleBookingSettle(i) ==
    /\ InFlight(i, {"book"})
    /\ \E a \in {handleBook(inflight[i]), NetworkError} :
        LET s == pageSettled(a, lsToken, user) IN
        /\ bookingsTable' = IF a = NetworkError THEN bookingsTable ELSE BookedBy(inflight[i])
        /\ lsToken' = s.token
        /\ user' = s.user
        /\ inflight' = IF a.st = "ok"
                       THEN Append(RemoveAt(inflight, i),
                                   NewRequest("events", AuthorizationHeader(lsToken), "", ""))
                       ELSE RemoveAt(inflight, i)
        /\ last' = Ran("bookingSettled", a.err)
        /\ verified' = IF a.err \in AuthErrors THEN NoToken ELSE verified
        /\ intervened' = (intervened \/ a.err \in AuthErrors)
    /\ bookingLoading' = NoEvent
    /\ UNCHANGED <<now, users, loading, started, sinceLogout>>
    /\ UNCHANGED <<dashboard, bookingsPage>>

\* The rest of fetchEvents (the list of events itself is not kept here).
fetchEventsSettle(i) ==
    /\ InFlight(i, {"events"})
    /\ \E a \in {gate(inflight[i]), NetworkError} :
        LET s == pageSettled(a, lsToken, user) IN
        /\ lsToken' = s.token
        /\ user' = s.user
        /\ last' = Ran("fetchEvents", a.err)
        /\ verified' = IF a.err \in AuthErrors THEN NoToken ELSE verified
        /\ intervened' = (intervened \/ a.err \in AuthErrors)
    /\ inflight' = RemoveAt(inflight, i)
    /\ UNCHANGED <<server, loading, started, sinceLogout>>
    /\ UNCHANGED pages

\* The page has just been mounted (its effect has dispatched GET /events) by
\* a user who signed in today or whose token runs out today; user 2 may have
\* booked event 1 before.
EventsInit ==
    /\ now = 0
    /\ users = <<[email |-> "a@x.com", password_hash |-> Hash("secret1")],
                 [email |-> "b@x.com", password_hash |-> Hash("secret2")]>>
    /\ bookingsTable \in {<<>>, <<[user_id |-> 2, event_id |-> 1, status |-> "confirmed"]>>}
    /\ lsToken \in {issue(1, 0), issue(2, 0 - TTL)}
    /\ user = lsToken.sub
    /\ loading = FALSE
    /\ started = TRUE
    /\ inflight = <<NewRequest("events", AuthorizationHeader(lsToken), "", "")>>
    /\ last = [op |-> "none", err |-> "none", had |-> TRUE]
    /\ sinceLogout = FALSE
    /\ intervened = FALSE
    /\ verified = lsToken
    /\ PagesAtMount

EventsNext ==
    \/ Tick
    \/ \E ev \in EventIds : handleBooking(ev)
    \/ \E i \in 1..MaxInflight :
        \/ handleBookingSettle(i)
        \/ fetchEventsSettle(i)

EventsSpec == EventsInit /\ [][EventsNext]_vars

\* ----------------------------------------------------- the Dashboard page
\* What the listings answer with. A date travels as a string, here the two
\* decimal digits of its day; event ev takes place on day ev - 1.
IsoDate(day) == <<day \div 10, day % 10>>

EventDate(ev) == IsoDate(ev - 1)

BookingRows ==
    [k \in 1..Len(bookingsTable) |->
        [id |-> k, user_id |-> bookingsTable[k].user_id,
         event_id |-> bookingsTable[k].event_id,
         event_date |-> EventDate(bookingsTable[k].event_id),
         status |-> bookingsTable[k].status]]

\* GET /bookings: the user's bookings.
BookingsOf(uid) == SelectSeq(BookingRows, LAMBDA b : b.user_id = uid)

\* GET /dashboard/stats
StatsOf(uid) == [total_bookings |-> Len(BookingsOf(uid))]

DashboardRequests == {"stats", "recent"}

\* fetchDashboardData after the answer a of one of its two requests: an input
\* of Promise.all that is rejected rejects it, the last input fulfilled
\* fulfils it, and what arrives after it is rejected is dropped. Its catch
\* block only logs; its finally block ends loading.
fetchDashboardDataSettledPiecewise(d, kind, a, uid) ==
    IF d.all # "pending" THEN d
    ELSE IF a.st # "ok" THEN [d EXCEPT !.all = "rejected", !.loading = FALSE]
    ELSE IF kind = "stats"
    THEN [d EXCEPT !.arrived = @ \cup {kind}, !.statsResponse = StatsOf(uid),
                   !.stats = StatsOf(uid),
                   !.all = IF d.arrived = {"recent"} THEN "fulfilled" ELSE @,
                   !.loading = d.arrived # {"recent"}]
    ELSE [d EXCEPT !.arrived = @ \cup {kind}, !.bookingsResponse = BookingsOf(uid),
                   !.recentBookings = BookingsOf(uid),
                   !.all = IF d.arrived = {"stats"} THEN "fulfilled" ELSE @,
                   !.loading = d.arrived # {"stats"}]

fetchDashboardDataSettled(d, kind, a, uid) ==
    IF d.all # "pending" THEN d
    ELSE IF a.st # "ok" THEN [d EXCEPT !.all = "rejected", !.loading = FALSE]
    ELSE LET got == [d EXCEPT !.arrived = @ \cup {kind},
                              !.statsResponse = IF kind = "stats" THEN StatsOf(uid) ELSE @,
                              !.bookingsResponse = IF kind = "recent" THEN BookingsOf(uid) ELSE @]
         IN IF got.arrived # DashboardRequests THEN got
            ELSE [got EXCEPT !.all = "fulfilled", !.stats = got.statsResponse,
                             !.recentBookings = got.bookingsResponse, !.loading = FALSE]

DashboardSettle(i) ==
    /\ InFlight(i, DashboardRequests)
    /\ \E a \in {gate(inflight[i]), NetworkError} :
        LET s == pageSettled(a, lsToken, user) IN
        /\ lsToken' = s.token
        /\ user' = s.user
        /\ dashboard' = fetchDashboardDataSettled(dashboard, inflight[i].kind, a, inflight[i].hdr.sub)
        /\ last' = Ran("fetchDashboardData", a.err)
        /\ verified' = IF a.err \in AuthErrors THEN NoToken ELSE verified
        /\ intervened' = (intervened \/ a.err \in AuthErrors)
    /\ inflight' = RemoveAt(inflight, i)
    /\ UNCHANGED <<server, loading, started, sinceLogout>>
    /\ UNCHANGED <<bookingLoading, bookingsPage>>

\* The same user books an event from another device.
BookedElsewhere(ev) ==
    /\ user # NoUser
    /\ bookingsTable' = BookedBy(BookingRequest(issue(user, now), ev))
    /\ UNCHANGED <<now, users, lsToken, user, loading, started, inflight, history, pages>>

\* The page has just been mounted by a signed-in user: its effect has called
\* fetchDashboardData, which has dispatched both requests.
DashboardInit ==
    /\ now = 0
    /\ users = <<[email |-> "a@x.com", password_hash |-> Hash("secret1")],
                 [email |-> "b@x.com", password_hash |-> Hash("secret2")]>>
    /\ bookingsTable \in {<<>>, <<[user_id |-> 2, event_id |-> 1, status |-> "confirmed"]>>}
    /\ lsToken \in {issue(1, 0), issue(2, 0 - TTL)}
    /\ user = lsToken.sub
    /\ loading = FALSE
    /\ started = TRUE
    /\ inflight = <<NewRequest("stats", AuthorizationHeader(lsToken), "", ""),
                    NewRequest("recent", AuthorizationHeader(lsToken), "", "")>>
    /\ last = [op |-> "none", err |-> "none", had |-> TRUE]
    /\ sinceLogout = FALSE
    /\ intervened = FALSE
    /\ verified = lsToken
    /\ bookingLoading = NoEvent
    /\ dashboard = [DashboardAtMount EXCEPT !.all = "pending"]
    /\ bookingsPage = BookingsAtMount

DashboardNext ==
    \/ Tick
    \/ \E ev \in EventIds : BookedElsewhere(ev)
    \/ \E i \in 1..MaxInflight : DashboardSettle(i)

DashboardSpec == DashboardInit /\ [][DashboardNext]_vars

\* ------------------------------------------------------ the Bookings page
Filters == {"all", "upcoming", "past"}

\* new Date(booking.event_date): the day the server's date string names.
DateOf(iso) == iso[1] * 10 + iso[2]

filteredStrictlyPast(bookings, filter, clock) ==
    SelectSeq(bookings, LAMBDA booking :
        LET eventDate == DateOf(booking.event_date) IN
        IF filter = "upcoming" THEN eventDate > clock /\ booking.status # "cancelled"
        ELSE IF filter = "past" THEN eventDate < clock \/ booking.status = "cancelled"
        ELSE TRUE)

filtered(bookings, filter, clock) ==
    SelectSeq(bookings, LAMBDA booking :
        LET eventDate == DateOf(booking.event_date) IN
        IF filter = "upcoming" THEN eventDate > clock /\ booking.status # "cancelled"
        ELSE IF filter = "past" THEN eventDate <= clock \/ booking.status = "cancelled"
        ELSE TRUE)

\* What the page lists.
filteredBookings == filtered(bookingsPage.bookings, bookingsPage.filter, now)

setFilter(f) ==
    /\ bookingsPage' = [bookingsPage EXCEPT !.filter = f]
    /\ UNCHANGED <<server, lsToken, user, loading, started, inflight, history>>
    /\ UNCHANGED <<bookingLoading, dashboard>>

fetchBookingsSettle(i) ==
    /\ InFlight(i, {"bookings"})
    /\ \E a \in {gate(inflight[i]), NetworkError} :
        LET s == pageSettled(a, lsToken, user) IN
        /\ lsToken' = s.token
        /\ user' = s.user
        /\ bookingsPage' = [bookingsPage EXCEPT
                !.bookings = IF a.st = "ok" THEN BookingsOf(inflight[i].hdr.sub) ELSE @,
                !.loading = FALSE]
        /\ last' = Ran("fetchBookings", a.err)
        /\ verified' = IF a.err \in AuthErrors THEN NoToken ELSE verified
        /\ intervened' = (intervened \/ a.err \in AuthErrors)
    /\ inflight' = RemoveAt(inflight, i)
    /\ UNCHANGED <<server, loading, started, sinceLogout>>
    /\ UNCHANGED <<bookingLoading, dashboard>>

\* The page has just been mounted by a signed-in user: its effect has called
\* fetchBookings. Some of the user's bookings were cancelled earlier.
BookingsInit ==
    /\ now = 0
    /\ users = <<[email |-> "a@x.com", password_hash |-> Hash("secret1")],
                 [email |-> "b@x.com", password_hash |-> Hash("secret2")]>>
    /\ \E st1, st2 \in {"confirmed", "cancelled"} :
         bookingsTable \in {<<>>,
                            <<[user_id |-> 1, event_id |-> 1, status |-> st1]>>,
                            <<[user_id |-> 1, event_id |-> 1, status |-> st1],
                              [user_id |-> 2, event_id |-> 2, status |-> "confirmed"],
                              [user_id |-> 1, event_id |-> 2, status |-> st2]>>}
    /\ lsToken \in {issue(1, 0), issue(2, 0 - TTL)}
    /\ user = lsToken.sub
    /\ loading = FALSE
    /\ started = TRUE
    /\ inflight = <<NewRequest("bookings", AuthorizationHeader(lsToken), "", "")>>
    /\ last = [op |-> "none", err |-> "none", had |-> TRUE]
    /\ sinceLogout = FALSE
    /\ intervened = FALSE
    /\ verified = lsToken
    /\ PagesAtMount

BookingsNext ==
    \/ Tick
    \/ \E f \in Filters : setFilter(f)
    \/ \E i \in 1..MaxInflight : fetchBookingsSettle(i)

BookingsSpec == BookingsInit /\ [][BookingsNext]_vars

\* ------------------------------------------------------------ a restart
\* The page is reloaded or the browser reopened: AuthProvider starts again
\* from useState(null) and useState(true), the responses to the requests of
\* the old page have nobody to go to, and localStorage is what it was.
RestartKeepingUser ==
    /\ started
    /\ loading' = TRUE
    /\ started' = FALSE
    /\ inflight' = <<>>
    /\ last' = Ran("restart", "none")
    /\ sinceLogout' = FALSE
    /\ intervened' = FALSE
    /\ verified' = NoToken
    /\ UNCHANGED <<server, lsToken, user>>
    /\ UNCHANGED pages

Restart ==
    /\ started
    /\ user' = NoUser
    /\ loading' = TRUE
    /\ started' = FALSE
    /\ inflight' = <<>>
    /\ last' = Ran("restart", "none")
    /\ sinceLogout' = FALSE
    /\ intervened' = FALSE
    /\ verified' = NoToken
    /\ UNCHANGED <<server, lsToken>>
    /\ UNCHANGED pages

RestartNext == Next \/ Restart

RestartSpec == Init /\ [][RestartNext]_vars

\* ------------------------------------------------------- a second tab
\* Another tab of the same origin runs its own AuthProvider on the same
\* localStorage. Its React state is its own; what this tab sees of it are its
\* writes to the item "token": logout and a failed fetchUser remove the item,
\* the continuation of a successful login sets it.
OtherTabLogout ==
    /\ lsToken' = logoutResult.token
    /\ UNCHANGED <<server, user, loading, started, inflight, history>>
    /\ UNCHANGED pages

OtherTabBootstrapFailure ==
    /\ lsToken' = fetchUserSettled(NetworkError, lsToken, NoUser).token
    /\ UNCHANGED <<server, user, loading, started, inflight, history>>
    /\ UNCHANGED pages

OtherTabLoginSettle(e, p) ==
    LET a == handleLogin(NewRequest("login", NoToken, e, p)) IN
    /\ a.st = "ok"
    /\ lsToken' = loginSettled(a, lsToken, NoUser).token
    /\ UNCHANGED <<server, user, loading, started, inflight, history>>
    /\ UNCHANGED pages

OtherTab ==
    \/ OtherTabLogout
    \/ OtherTabBootstrapFailure
    \/ \E c \in Credentials : OtherTabLoginSettle(c[1], c[2])

TabsNext == Next \/ OtherTab

TabsSpec == Init /\ [][TabsNext]_vars

\* -------------------------------------------------------- the server alone
\* The server answering the requests of any client, one request per step.
\* A client presents any string as its token: none, a token this server
\* issued at some time up to now (for an id whose row may since be gone: the
\* database file is recreated on a reset), or one of those with a damaged
\* signature.
Signatures == {"ok", "bad"}
Subjects == 1..Cardinality(Registrations)
IssuedAt == {0 - TTL - 1, 0 - TTL} \cup 0..MaxTime
TokenStrings ==
    {NoToken} \cup
    {[issue(id, c) EXCEPT !.sig = s] : id \in Subjects, c \in IssuedAt, s \in Signatures}

client == <<lsToken, user, loading, started, inflight, sinceLogout, intervened, verified>>

\* last in this specification: the endpoint that answered last, its request
\* and its response; via is the endpoint whose response handed out the token
\* of the request, when that was the response just before.
Served(path, r, a, via) == [op |-> path, err |-> a.err, req |-> r, res |-> a, via |-> via]

ServeRegister(e, p) ==
    LET r == NewRequest("register", NoToken, e, p) IN
    /\ users' = RegisteredBy(r)
    /\ last' = Served("/api/auth/register", r, handleRegister(r), "none")
    /\ UNCHANGED <<now, bookingsTable, client>>
    /\ UNCHANGED pages

ServeLogin(e, p) ==
    LET r == NewRequest("login", NoToken, e, p) IN
    /\ last' = Served("/api/auth/login", r, handleLogin(r), "none")
    /\ UNCHANGED <<server, client>>
    /\ UNCHANGED pages

ServeProtected(path, t) ==
    LET r == NewRequest(path, t, "", "") IN
    /\ t.exp - TTL <= now
    /\ last' = Served(path, r, handle(path, r),
                      IF t # NoToken /\ t = last.res.token THEN last.op ELSE "none")
    /\ UNCHANGED <<server, client>>
    /\ UNCHANGED pages

ServerInit ==
    /\ now = 0
    /\ users = <<[email |-> "a@x.com", password_hash |-> Hash("secret1")]>>
    /\ lsToken = NoToken
    /\ user = NoUser
    /\ loading = TRUE
    /\ started = FALSE
    /\ inflight = <<>>
    /\ last = Served("none", NewRequest("none", NoToken, "", ""),
                     Response("ok", "none", NoToken, NoUser), "none")
    /\ sinceLogout = FALSE
    /\ intervened = FALSE
    /\ verified = NoToken
    /\ bookingsTable = <<>>
    /\ PagesAtMount

ServerNext ==
    \/ Tick
    \/ \E c \in Registrations : ServeRegister(c[1], c[2])
    \/ \E c \in Credentials : ServeLogin(c[1], c[2])
    \/ \E path \in ProtectedEndpoints : \E t \in TokenStrings : ServeProtected(path, t)

ServerSpec == ServerInit /\ [][ServerNext]_vars

\* ------------------------------------------------------------------ claims
SettlesOk(i) ==
    /\ last'.err = "none"
    /\ last'.op \in {"fetchUser", "loginSettled", "registerSettled"}
    /\ i \in 1..Len(inflight)
    /\ \/ FetchUserSettle(i)
       \/ LoginSettle(i)
       \/ RegisterSettle(i)

\* C1: in every reachable state user is present if and only if a token is
\* stored and the last verification outcome applied to the session was a
\* success for that token; in particular user is never present without a
\* stored token.
C1_UserIffTokenVerified ==
    (user # NoUser) <=> (lsToken # NoToken /\ verified = lsToken)

\* C2: the success response of a bootstrap, login or register request that
\* was in flight when logout ran sets neither user nor the stored token.
C2_StaleAfterLogoutIgnored ==
    [][\A i \in 1..MaxInflight :
        (InFlight(i, SessionKinds) /\ inflight[i].lo /\ SettlesOk(i))
            => (user' = user /\ lsToken' = lsToken)]_vars

\* C3: the late success response of a login that a login dispatched after it
\* has already superseded overwrites neither the stored token nor user.
C3_SupersededLoginIgnored ==
    [][\A i \in 1..MaxInflight :
        (/\ InFlight(i, {"login"})
         /\ inflight[i].sup
         /\ ~inflight[i].lo
         /\ last'.err = "none"
         /\ LoginSettle(i)) => (user' = user /\ lsToken' = lsToken)]_vars

\* The request a step dispatches, if it dispatches one.
Dispatches == Len(inflight') = Len(inflight) + 1
Dispatched == inflight'[Len(inflight')]

CountKind(s, kind) == Cardinality({j \in 1..Len(s) : s[j].kind = kind})

C5_LogoutClearsWithoutRequest ==
    [][(last'.op = "logout" /\ Logout) =>
        /\ lsToken' = NoToken
        /\ user' = NoUser
        /\ Len(inflight') = Len(inflight)
        /\ \A j \in 1..Len(inflight) :
            /\ inflight'[j].kind = inflight[j].kind
            /\ inflight'[j].hdr = inflight[j].hdr]_vars

C5_Witness ==
    /\ last.op = "logout"
    /\ last.had
    /\ lsToken = NoToken
    /\ user = NoUser
    /\ \E i \in 1..Len(inflight) : inflight[i].lo /\ inflight[i].kind = "login"

\* C6: from a logout until the next accepted login/register response, user
\* is absent, no token is stored and every protected request that is
\* dispatched carries no token.
C6_NothingSentOrShownAfterLogout ==
    [][/\ sinceLogout' => (user' = NoUser /\ lsToken' = NoToken)
       /\ (sinceLogout /\ Dispatches /\ Dispatched.kind \in ProtectedKinds)
            => Dispatched.hdr = NoToken]_vars

\* C7: a request dispatched to a protected endpoint carries the token that is
\* stored at the moment of the dispatch, and none when none is stored.
C7_RequestCarriesStoredToken ==
    [][(Dispatches /\ Dispatched.kind \in ProtectedKinds) => Dispatched.hdr = lsToken]_vars

C7_Witness ==
    /\ last.op = "page"
    /\ lsToken # NoToken
    /\ user # NoUser
    /\ \E i \in 1..Len(inflight) :
        inflight[i].kind \in PageKinds /\ inflight[i].hdr = lsToken

\* C8: when the success response of login or register arrives, its token and
\* its user are stored in the same step.
C8_SuccessStoresTokenAndUser ==
    [][\A i \in 1..MaxInflight :
        /\ (last' = Ran("loginSettled", "none") /\ InFlight(i, {"login"}) /\ LoginSettle(i))
            => /\ lsToken' = handleLogin(inflight[i]).token
               /\ user' = handleLogin(inflight[i]).user
               /\ lsToken' # NoToken /\ user' # NoUser
        /\ (last' = Ran("registerSettled", "none") /\ InFlight(i, {"register"}) /\ RegisterSettle(i))
            => /\ lsToken' = handleRegister(inflight[i]).token
               /\ user' = handleRegister(inflight[i]).user
               /\ lsToken' # NoToken /\ user' # NoUser]_vars

C8_Witness ==
    /\ last.op = "registerSettled"
    /\ last.err = "none"
    /\ lsToken = issue(2, now)
    /\ user = 2

\* C9: when login or register fails, the stored token and user are what they
\* were before the response and the caller gets the error.
C9_FailureLeavesSession ==
    [][\A i \in 1..MaxInflight :
        /\ (last'.op = "loginSettled" /\ last'.err # "none" /\ InFlight(i, {"login"}) /\ LoginSettle(i))
            => /\ lsToken' = lsToken
               /\ user' = user
               /\ last'.err \in {handleLogin(inflight[i]).err, NetworkError.err}
        /\ (last'.op = "registerSettled" /\ last'.err # "none" /\ InFlight(i, {"register"}) /\ RegisterSettle(i))
            => /\ lsToken' = lsToken
               /\ user' = user
               /\ last'.err \in {handleRegister(inflight[i]).err, NetworkError.err}]_vars

C9_Witness ==
    /\ last.op = "loginSettled"
    /\ last.err = "bad_credentials"
    /\ lsToken # NoToken
    /\ user # NoUser

\* C10: bootstrap runs once; with a stored token it dispatches one /auth/me
\* request carrying it, and when nothing else touched the session it settles
\* with user set to the returned identity and the token kept on success, and
\* with no token and no user on a verification failure.
C10_BootstrapSettles ==
    [][/\ Bootstrap =>
            /\ ~started
            /\ IF lsToken # NoToken
               THEN Dispatches /\ Dispatched.kind = "me" /\ Dispatched.hdr = lsToken
               ELSE inflight' = inflight /\ ~loading'
       /\ CountKind(inflight', "me") > CountKind(inflight, "me") => Bootstrap
       /\ started => started'
       /\ CountKind(inflight', "me") <= 1
       /\ \A i \in 1..MaxInflight :
            (~intervened /\ last'.op = "fetchUser" /\ InFlight(i, {"me"}) /\ FetchUserSettle(i)) =>
                /\ last'.err = "none" =>
                    /\ user' = handleMe(inflight[i]).user
                    /\ user' # NoUser
                    /\ lsToken' = inflight[i].hdr
                /\ last'.err \in AuthErrors => (lsToken' = NoToken /\ user' = NoUser)
                /\ ~loading']_vars

C10_Witness ==
    /\ last.op = "fetchUser"
    /\ last.err = "none"
    /\ ~intervened
    /\ ~loading
    /\ user = 1
    /\ lsToken = issue(1, 0 - TTL)

\* C11: loading is true from the start of the application until the bootstrap
\* has settled (the mount effect has run and no GET /auth/me of it is still in
\* flight); on every path it becomes false in the end; once false it never
\* becomes true again.
BootstrapSettled == started /\ CountKind(inflight, "me") = 0

C11_LoadingEndsOnce ==
    /\ [](loading <=> ~BootstrapSettled)
    /\ [][~loading => ~loading']_vars
    /\ <>[](~loading)

C11_Witness ==
    /\ ~loading
    /\ last.op = "fetchUser"
    /\ last.err = "network"
    /\ lsToken = NoToken
    /\ user = NoUser

\* C12: verification checks in the order absent value, signature, expiry,
\* subject: whatever the expiry and the subject of a token, an absent value is
\* answered missing_token and an altered signature invalid_token; a token
\* with a good signature that is past its expiry is answered token_expired
\* whatever its subject; unknown_subject is answered only when the three
\* checks before it pass.
ServesProtected ==
    /\ last'.op \in ProtectedEndpoints
    /\ ServeProtected(last'.op, last'.req.hdr)

C12_VerificationOrder ==
    [][ServesProtected =>
        LET t == last'.req.hdr IN
        /\ t.sig = "none" => last'.err = "missing_token"
        /\ t.sig = "bad" => last'.err = "invalid_token"
        /\ (t.sig = "ok" /\ now > t.exp) => last'.err = "token_expired"
        /\ last'.err = "unknown_subject" =>
                (t.sig = "ok" /\ now <= t.exp /\ t.sub \notin 1..Len(users))]_vars

C12_Witness ==
    /\ last.op \in ProtectedEndpoints
    /\ last.req.hdr.sig = "bad"
    /\ now > last.req.hdr.exp
    /\ last.err = "invalid_token"

\* C13: a protected request with a token issued to an existing identity is
\* let through at every time from its issue to its expiry and answered
\* token_expired at every later time, whatever was answered before.
C13_VerdictByTokenAndClock ==
    [][ServesProtected =>
        LET t == last'.req.hdr IN
        (t.sig = "ok" /\ t.sub \in 1..Len(users)) =>
            /\ (t.exp - TTL <= now /\ now <= t.exp) => last'.err = "none"
            /\ now > t.exp => last'.err = "token_expired"]_vars

C13_Witness ==
    /\ last.op \in ProtectedEndpoints
    /\ last.req.hdr = issue(1, 0 - TTL)
    /\ now > 0
    /\ last.err = "token_expired"

\* C14: a protected request with a well-signed, unexpired token whose subject
\* is no existing identity is rejected with unknown_subject and never
\* answered with a success.
C14_UnknownSubjectRejected ==
    [][ServesProtected =>
        LET t == last'.req.hdr IN
        (t.sig = "ok" /\ now <= t.exp /\ t.sub \notin 1..Len(users)) =>
            (last'.res.st = "fail" /\ last'.err = "unknown_subject")]_vars

\* The verifier of the design: the three checks of verify and then the
\* resolution of the subject.
Verification(t) ==
    IF verify(t, now) # "ok" THEN verify(t, now)
    ELSE IF t.sub \notin 1..Len(users) THEN "unknown_subject"
    ELSE "ok"

\* C15: a protected request is answered by its handler exactly when the
\* verification of its token succeeds; on a verification error the answer is
\* the authorization failure of that error's kind and the server's data are
\* as before.
C15_HandlerRunsIffVerified ==
    [][ServesProtected =>
        LET v == Verification(last'.req.hdr) IN
        /\ last'.res.st = "ok" <=> v = "ok"
        /\ v # "ok" => (last'.err = v /\ last'.err \in AuthErrors /\ server' = server)]_vars

\* C16: jwt_required is the gate of every protected endpoint: the endpoint
\* that answers a request either rejects it with the error kind of the gate
\* or lets it through, and in the same state every other protected endpoint
\* does the same with that token.
GateErrors == {"missing_token", "invalid_token", "token_expired"}

GateVerdict(path, t) ==
    LET a == handle(path, NewRequest(path, t, "", "")) IN
    IF a.err \in GateErrors THEN a.err ELSE "pass"

KnownTokens ==
    ({lsToken, verified} \cup {inflight[i].hdr : i \in 1..Len(inflight)}) \ {NoToken}

Verdict(t) == handleMe(NewRequest("me", t, "", "")).err

Issued(t) == t.sig = "ok" /\ t.sub \in 1..Len(users)

C17_VerdictSurvivesClient ==
    [][\A t \in KnownTokens :
        /\ (now' = now /\ Issued(t)) => Verdict(t)' = Verdict(t)
        /\ (Issued(t) /\ t.exp - TTL <= now' /\ now' <= t.exp) => Verdict(t)' = "none"]_vars

C17_Witness ==
    /\ sinceLogout
    /\ lsToken = NoToken
    /\ last.op = "pageSettled"
    /\ last.err = "none"

\* C18: a login with the credentials of an identity is always answered with
\* a token whose subject is that identity's id and whose expiry is the time of
\* issue plus the TTL of 7 days, and leaves the server's data as they were; a
\* successful register is answered with such a token for the new identity,
\* and the only change of the server's data is the new users row, which holds
\* no token.
Authenticates(r) ==
    /\ UserIdByEmail(r.email) # NoUser
    /\ users[UserIdByEmail(r.email)].password_hash = Hash(r.pw)

C18_IssueTimedAndStateless ==
    [][/\ (last'.op = "/api/auth/login" /\ ServeLogin(last'.req.email, last'.req.pw)
            /\ Authenticates(last'.req)) =>
                /\ last'.res.st = "ok"
                /\ last'.res.token =
                        [sub |-> UserIdByEmail(last'.req.email), exp |-> now + 7, sig |-> "ok"]
                /\ server' = server
       /\ (last'.op = "/api/auth/register" /\ ServeRegister(last'.req.email, last'.req.pw)
            /\ last'.res.st = "ok") =>
                /\ last'.res.token = [sub |-> Len(users'), exp |-> now + 7, sig |-> "ok"]
                /\ now' = now
                /\ users' = Append(users, [email |-> last'.req.email,
                                           password_hash |-> Hash(last'.req.pw)])]_vars

C18_Witness ==
    /\ last.op = "/api/auth/login"
    /\ last.res.st = "ok"
    /\ last.res.user = 2
    /\ last.res.token = [sub |-> 2, exp |-> now + 7, sig |-> "ok"]
    /\ now > 0

\* C19: an identity keeps the id its registration returned: no users row
\* ever changes, a successful register returns the id of the row that holds
\* its email, a login with an identity's credentials returns the id of the
\* row (of every row) with that email, and /auth/me with the token a login or
\* a register has just returned answers with the user id that login or
\* register returned.
TokenEndpoints == {"/api/auth/login", "/api/auth/register"}

C19_LoginThenMeSameIdentity ==
    [][/\ \A k \in 1..Len(users) : k <= Len(users') /\ users'[k] = users[k]
       /\ (last'.op = "/api/auth/register" /\ last'.res.st = "ok"
            /\ ServeRegister(last'.req.email, last'.req.pw)) =>
                /\ last'.res.user \in 1..Len(users')
                /\ users'[last'.res.user].email = last'.req.email
       /\ (last'.op = "/api/auth/login" /\ ServeLogin(last'.req.email, last'.req.pw)
            /\ Authenticates(last'.req)) =>
                /\ last'.res.st = "ok"
                /\ \A k \in 1..Len(users) :
                        users[k].email = last'.req.email => last'.res.user = k
       /\ (last'.op = "/api/auth/me" /\ last'.via \in TokenEndpoints
            /\ ServeProtected(last'.op, last'.req.hdr)) =>
                /\ last'.err = "none"
                /\ last'.res.user = last.res.user
                /\ last'.res.user = last'.req.hdr.sub]_vars

C19_Witness ==
    /\ last.op = "/api/auth/me"
    /\ last.via = "/api/auth/login"
    /\ last.err = "none"
    /\ last.res.user = 2
    /\ Len(users) = 2
    /\ users[2].email = "b@x.com"

\* C20: no two users rows ever hold the same email; the answer to a register
\* request whose email is registered when the server handles it (also when
\* another register of that email was in flight with it and won) is the
\* conflict error, it adds no row and carries no token, and the client's
\* token and user are what they were before the answer.
UniqueEmails(u) ==
    \A j, k \in 1..Len(u) : u[j].email = u[k].email => j = k

C20_DuplicateEmailRefused ==
    [][/\ UniqueEmails(users')
       /\ \A i \in 1..MaxInflight :
            (/\ last'.op = "registerSettled"
             /\ last'.err # "network"
             /\ InFlight(i, {"register"})
             /\ UserIdByEmail(inflight[i].email) # NoUser
             /\ RegisterSettle(i)) =>
                /\ last'.err = "duplicate_email"
                /\ users' = users
                /\ handleRegister(inflight[i]).token = NoToken
                /\ lsToken' = lsToken
                /\ user' = user]_vars

C20_Witness ==
    /\ last.op = "registerSettled"
    /\ last.err = "duplicate_email"
    /\ last.had
    /\ Len(users) = 2
    /\ users[2].email = "b@x.com"
    /\ user = 2
    /\ lsToken.sub = 2

\* C23: a response that is a transport failure (or any failure outside the
\* authentication-layer kinds) leaves the stored token and user as they were,
\* for the bootstrap's GET /auth/me as for every other request.
SettlesAny(i) ==
    \/ FetchUserSettle(i)
    \/ LoginSettle(i)
    \/ RegisterSettle(i)
    \/ PageSettle(i)

C23_TransportErrorKeepsSession ==
    [][\A i \in 1..MaxInflight :
        (last'.err \notin (AuthErrors \cup {"none"}) /\ i <= Len(inflight) /\ SettlesAny(i)) =>
            (lsToken' = lsToken /\ user' = user)]_vars

\* C26: whenever a token is stored and a user is present, the user is the
\* subject of the stored token.
C26_UserIsTokenSubject ==
    (lsToken # NoToken /\ user # NoUser) => user = lsToken.sub

\* C27: the failure of the bootstrap's GET /auth/me leaves a stored token
\* alone that is not the token the request was sent with.
C27_BootstrapFailureKeepsNewerToken ==
    [][\A i \in 1..MaxInflight :
        (/\ last'.op = "fetchUser"
         /\ last'.err # "none"
         /\ InFlight(i, {"me"})
         /\ lsToken # inflight[i].hdr
         /\ FetchUserSettle(i)) => lsToken' = lsToken]_vars

\* C24: the step in which a request ends with an authentication-layer error
\* dispatches nothing and leaves no token stored; a token is stored again only
\* by the accepted response of a login or register; a request dispatched
\* while no token is stored carries none. So no request carries a token
\* between such a failure and the next login or register.
Sent(s) == [j \in 1..Len(s) |-> [kind |-> s[j].kind, hdr |-> s[j].hdr,
                                 email |-> s[j].email, pw |-> s[j].pw]]

C22_SessionNotShared ==
    [][OtherTab =>
        /\ lsToken' = lsToken
        /\ (user' # NoUser /\ lsToken' = NoToken) => (user # NoUser /\ lsToken = NoToken)]_vars

\* C25: the item "token" is all that outlives a restart. It is written only
\* by the accepted response of a login or register, which always writes it;
\* it is removed by logout and by a failed bootstrap (and by nothing but
\* these and a rejected page request); a restart keeps it and starts with no
\* user; and a user appears only with a successful /auth/me, login or
\* register.
C25_OnlyTokenIsDurable ==
    [][/\ (lsToken' # lsToken /\ lsToken' # NoToken) =>
            (last'.op \in {"loginSettled", "registerSettled"} /\ last'.err = "none")
       /\ (last'.op \in {"loginSettled", "registerSettled"} /\ last'.err = "none"
            /\ Len(inflight') < Len(inflight)) => lsToken' # NoToken
       /\ (lsToken' # lsToken /\ lsToken' = NoToken) =>
            \/ last'.op = "logout"
            \/ last'.op = "fetchUser" /\ last'.err # "none"
            \/ last'.op = "pageSettled" /\ last'.err \in AuthErrors
       /\ (last'.op = "logout" /\ Logout) => lsToken' = NoToken
       /\ (last'.op = "fetchUser" /\ last'.err # "none" /\ Len(inflight') < Len(inflight))
            => lsToken' = NoToken
       /\ (last'.op = "restart" /\ Restart) =>
            (lsToken' = lsToken /\ user' = NoUser /\ loading' /\ inflight' = <<>>)
       /\ (user = NoUser /\ user' # NoUser) =>
            /\ last'.op \in {"fetchUser", "loginSettled", "registerSettled"}
            /\ last'.err = "none"]_vars

C25_Witness ==
    /\ last.op = "restart"
    /\ last.had
    /\ user = NoUser
    /\ lsToken.sig = "ok"
    /\ lsToken.exp >= TTL

\* C21: the Bookings Table never holds two rows with the same user and
\* event; the answer to a POST /bookings for a user and event that have a row
\* when the server handles it (also when another POST for them was in flight
\* with it) is a rejection and the table is as before.
UniqueBookings(t) ==
    \A j, k \in 1..Len(t) :
        (t[j].user_id = t[k].user_id /\ t[j].event_id = t[k].event_id) => j = k

C21_OneBookingPerUserAndEvent ==
    [][/\ UniqueBookings(bookingsTable')
       /\ \A i \in 1..MaxInflight :
            (/\ last'.op = "bookingSettled"
             /\ last'.err # "network"
             /\ InFlight(i, {"book"})
             /\ Booked(inflight[i].hdr.sub, inflight[i].event_id)
             /\ handleBookingSettle(i)) =>
                /\ last'.err \notin {"none", "network"}
                /\ bookingsTable' = bookingsTable]_vars

C21_Witness ==
    /\ last.op = "bookingSettled"
    /\ last.err = "already_booked"
    /\ Booked(1, 1)
    /\ Booked(2, 1)
    /\ \E i \in 1..Len(inflight) : inflight[i].kind = "events"

\* C28: every POST /bookings in flight is for the event bookingLoading
\* names, whose button is the disabled one, and no two of them are for the
\* same event.
C28_OneBookingRequestPerEvent ==
    \A i, j \in 1..Len(inflight) :
        inflight[i].kind = "book" =>
            /\ bookingLoading = inflight[i].event_id
            /\ (inflight[j].kind = "book" /\ inflight[j].event_id = inflight[i].event_id) => i = j

\* C29: stats and recentBookings change only in the step in which the
\* second of the two requests succeeds after the first has succeeded, and then
\* both become what the two responses held; when a request fails neither
\* changes, then or later; loading is false from the step in which the
\* Promise.all is fulfilled or rejected.
C29_DashboardAllOrNothing ==
    [][/\ (dashboard'.stats # dashboard.stats
            \/ dashboard'.recentBookings # dashboard.recentBookings) =>
                (dashboard.all = "pending" /\ dashboard'.all = "fulfilled")
       /\ (dashboard.all = "pending" /\ dashboard'.all = "fulfilled") =>
                /\ last'.err = "none"
                /\ dashboard.arrived \cup {inflight[CHOOSE i \in 1..Len(inflight) :
                        inflight[i].kind \notin dashboard.arrived].kind} = DashboardRequests
                /\ dashboard'.stats = dashboard'.statsResponse
                /\ dashboard'.stats # NoStats
                /\ dashboard'.recentBookings = dashboard'.bookingsResponse
       /\ (last'.op = "fetchDashboardData" /\ last'.err # "none"
            /\ Len(inflight') < Len(inflight)) =>
                /\ dashboard'.all = "rejected"
                /\ dashboard'.stats = NoStats
                /\ dashboard'.recentBookings = <<>>
       /\ dashboard'.loading <=> dashboard'.all = "pending"]_vars

C29_Witness ==
    /\ dashboard.all = "rejected"
    /\ dashboard.arrived = {"stats"}
    /\ dashboard.statsResponse # NoStats
    /\ dashboard.stats = NoStats
    /\ dashboard.recentBookings = <<>>
    /\ ~dashboard.loading
    /\ inflight = <<>>

\* C30: at any one time every booking of the page's list is listed under
\* exactly one of the filters "upcoming" and "past", under "upcoming" exactly
\* when its event date is later than now and it is not cancelled; the two
\* lists together are as long as the whole list, "all" lists every booking,
\* and what the page lists is the list of the filter chosen.
C30_UpcomingAndPastPartition ==
    LET all == bookingsPage.bookings
        upcoming == filtered(all, "upcoming", now)
        past == filtered(all, "past", now)
        In(b, list) == \E k \in 1..Len(list) : list[k] = b
    IN /\ \A j \in 1..Len(all) :
            /\ In(all[j], upcoming) <=> ~In(all[j], past)
            /\ In(all[j], upcoming) <=>
                    (DateOf(all[j].event_date) > now /\ all[j].status # "cancelled")
       /\ Len(upcoming) + Len(past) = Len(all)
       /\ filtered(all, "all", now) = all
       /\ filteredBookings = CASE bookingsPage.filter = "upcoming" -> upcoming
                                [] bookingsPage.filter = "past" -> past
                                [] OTHER -> all

C30_Witness ==
    /\ bookingsPage.filter = "past"
    /\ Len(bookingsPage.bookings) = 2
    /\ Len(filteredBookings) = 1
    /\ DateOf(filteredBookings[1].event_date) = now
    /\ filteredBookings[1].status = "confirmed"
    /\ Len(filtered(bookingsPage.bookings, "upcoming", now)) = 1

====
